---- MODULE Spec2Model ----
(***************************************************************************)
(* Signing service: per-device signature counter and signature chain.      *)
(* The model follows the service wired by main.go: the HTTP handlers call  *)
(* SignatureDeviceService (CreateDevice, SignData, GetDevice,              *)
(* GetAllDevices), which works on InMemoryStorage, a map from device id to *)
(* a POINTER to the device record, guarded by a readers-writer lock.       *)
(* Strings are sequences of byte values; device records live in a heap so  *)
(* that the aliasing between the stored record and the record a handler    *)
(* works on is kept.                                                       *)
(***************************************************************************)
EXTENDS Integers, Sequences, FiniteSets, TLC

\* ---------------------------------------------------------------- bounds
MaxThreads == 2
MaxCalls == 3

Threads == 1..MaxThreads
NoThread == 0
Nil == 0

\* device ids the clients use: "d" and "k1"
IDs == {<<100>>, <<107, 49>>}
\* data the clients submit: "x" and "_" (the chain delimiter itself)
Datas == {<<120>>, <<95>>}
\* the algorithm names, as the bytes of the request: "RSA", "ECC"
AlgRSA == <<82, 83, 65>>
AlgECC == <<69, 67, 67>>
\* an algorithm name the service does not know: "already exists"
AlgOther == <<97, 108, 114, 101, 97, 100, 121, 32, 101, 120, 105, 115, 116, 115>>
\* the create requests the clients send for an id: a label and an algorithm,
\* the last two with an algorithm the service does not know, one of them ""
CreateOptions ==
  {[Label |-> "A", Algorithm |-> AlgRSA], [Label |-> "B", Algorithm |-> AlgECC],
   [Label |-> "", Algorithm |-> <<>>], [Label |-> "", Algorithm |-> AlgOther]}
\* outcomes of the per-call randomness of an ECDSA signature
Rnds == {0, 1}

\* ------------------------------------------------------- pure functions
\* one character of the standard base64 alphabet, as its ASCII code
B64Char(i) ==
  IF i < 26 THEN 65 + i
  ELSE IF i < 52 THEN 97 + (i - 26)
  ELSE IF i < 62 THEN 48 + (i - 52)
  ELSE IF i = 62 THEN 43
  ELSE 47

B64Pad == 61

RECURSIVE Base64(_)
\* base64.StdEncoding.EncodeToString: 3 bytes -> 4 characters, '=' padding
Base64(b) ==
  IF Len(b) = 0 THEN <<>>
  ELSE IF Len(b) = 1 THEN
    LET n == b[1] * 65536
    IN <<B64Char(n \div 262144), B64Char((n \div 4096) % 64), B64Pad, B64Pad>>
  ELSE IF Len(b) = 2 THEN
    LET n == b[1] * 65536 + b[2] * 256
    IN <<B64Char(n \div 262144), B64Char((n \div 4096) % 64),
         B64Char((n \div 64) % 64), B64Pad>>
  ELSE
    LET n == b[1] * 65536 + b[2] * 256 + b[3]
    IN <<B64Char(n \div 262144), B64Char((n \div 4096) % 64),
         B64Char((n \div 64) % 64), B64Char(n % 64)>>
       \o Base64(SubSeq(b, 4, Len(b)))

RECURSIVE Itoa(_)
\* the %d verb of fmt.Sprintf for a non-negative int
Itoa(n) ==
  IF n < 10 THEN <<48 + n>> ELSE Itoa(n \div 10) \o <<48 + (n % 10)>>

Underscore == 95

\* fmt.Sprintf("%d_%s_%s", counter, data, lastSignature)
Sprintf(counter, data, last) ==
  Itoa(counter) \o <<Underscore>> \o data \o <<Underscore>> \o last

RECURSIVE CounterField(_, _)
\* the decimal value of the first underscore-separated field of a payload
CounterField(s, acc) ==
  IF Len(s) = 0 \/ s[1] = Underscore THEN acc
  ELSE CounterField(Tail(s), acc * 10 + (s[1] - 48))

\* RSASigner.Sign: SHA-256 then PKCS#1 v1.5, a deterministic function of
\* the key and the payload. The signature bytes are kept symbolic: they
\* name the scheme, the key and the signed payload.
RSASign(key, payload) == <<82, key>> \o payload

\* ECDSASigner.Sign: SHA-256 then ECDSA/ASN.1, with fresh randomness
ECDSASign(key, payload, rnd) == <<69, key, rnd>> \o payload

\* Signer.Sign of the signer bound to a device at creation
Sign(dev, payload, rnd) ==
  IF dev.Algorithm = AlgRSA THEN RSASign(dev.PrivateKey, payload)
  ELSE ECDSASign(dev.PrivateKey, payload, rnd)

\* ---------------------------------------------------------------- state
VARIABLES
  heap,       \* device records, by address (1..Len(heap))
  devices,    \* InMemoryStorage.devices: id -> address, Nil when absent
  rwReaders,  \* InMemoryStorage.mu: threads holding the read lock
  rwWriter,   \* InMemoryStorage.mu: the thread whose Lock() has been
              \* announced: it waits for the readers inside or is inside
  mu,         \* SignatureDeviceService.mu: its holder
  pc,         \* per request thread: position in its handler
  loc,        \* per request thread: arguments and locals of the handler
  ret,        \* what the call that returned last has returned, in "seen"
              \* the records its caller reads through the pointers, and
              \* the status and body its HTTP handler answers with
  signed,     \* per id: the responses of the successful SignData calls
  failed,     \* per id: number of SignData calls that returned an error
  calls       \* number of calls issued

vars == <<heap, devices, rwReaders, rwWriter, mu, pc, loc, ret, signed,
          failed, calls>>

NoLoc ==
  [op |-> "", id |-> <<>>, data |-> <<>>, label |-> "", alg |-> <<>>,
   dev |-> Nil, payload |-> <<>>, sig |-> <<>>,
   snapCounter |-> 0, snapLast |-> <<>>, method |-> "", decodes |-> TRUE]

NoRet ==
  [op |-> "", id |-> <<>>, alg |-> <<>>, err |-> "", msg |-> <<>>,
   dev |-> Nil, Signature |-> <<>>, SignedData |-> <<>>, list |-> {},
   seen |-> <<>>, status |-> 0, body |-> <<>>]

\* NewInMemoryStorage, NewSignatureDeviceService
Init ==
  /\ heap = <<>>
  /\ devices = [i \in IDs |-> Nil]
  /\ rwReaders = {}
  /\ rwWriter = NoThread
  /\ mu = NoThread
  /\ pc = [t \in Threads |-> "idle"]
  /\ loc = [t \in Threads |-> NoLoc]
  /\ ret = NoRet
  /\ signed = [i \in IDs |-> <<>>]
  /\ failed = [i \in IDs |-> 0]
  /\ calls = 0

\* ------------------------------------------------- storage and service
\* an RLock that waits only for a writer that is inside, so that readers
\* overtake a writer that waits for the readers before them
RLockFree_Barging == \A t \in Threads : pc[t] \notin {"cd_save", "sd_update"}

\* sync.RWMutex: RLock is granted while no writer holds the lock or has
\* announced its Lock ("concurrent calls to RLock will block until the
\* writer has acquired (and released) the lock")
RLockFree == rwWriter = NoThread

\* sync.RWMutex: Lock is announced while no other writer is announced
LockFree == rwWriter = NoThread

\* a Lock that is granted while readers are inside
ReadersDrained_NoWait == TRUE

\* sync.RWMutex: an announced Lock is granted once the readers have left
ReadersDrained == rwReaders = {}

\* a service whose Lock never waits (no mutual exclusion of SignData)
MuFree_NoWait == TRUE

\* sync.Mutex of the service: Lock is granted while nobody holds it
MuFree == mu = NoThread

\* a Save without the existence check: it overwrites the stored record
SaveConflict_Overwrite(id) == FALSE

\* InMemoryStorage.Save: "if _, exists := s.devices[device.ID]; exists"
SaveConflict(id) == devices[id] # Nil

\* InMemoryStorage.GetDevice: "device, exists := s.devices[id]"
Exists(id) == devices[id] # Nil

\* a CreateDevice that rejects only the missing algorithm
ValidAlgorithm_NonEmpty(alg) == alg # <<>>

\* CreateDevice: the algorithm check
ValidAlgorithm(alg) == alg = AlgRSA \/ alg = AlgECC

\* a genesis value that is the empty string instead of base64(id)
InitialSignature_Empty(id) == <<>>

\* CreateDevice: the genesis value of the chain
InitialSignature(id) == Base64(id)

\* CreateDevice: the device record; the key pair is fresh for every call
NewDevice(id, label, alg, key) ==
  [ID |-> id, Label |-> label, Algorithm |-> alg, SignatureCounter |-> 0,
   LastSignature |-> InitialSignature(id), PublicKey |-> key,
   PrivateKey |-> key]

\* a SignData that increments first and signs the incremented counter
PayloadCounter_Incremented(rec) == rec.SignatureCounter + 1

\* SignData: "counter := device.SignatureCounter", read before signing
PayloadCounter(rec) == rec.SignatureCounter

\* SignData: the chained payload built from the loaded record
DataToBeSigned(rec, data) ==
  Sprintf(PayloadCounter(rec), data, rec.LastSignature)

\* the error strings, as far as the callers tell them apart
ErrInvalidAlgorithm == "invalid algorithm"
ErrAlreadyExists == "failed to save device: already exists"
ErrNotFound == "failed to find device: device not found"
ErrSign == "failed to sign data"
ErrUpdate == "failed to update device"
ErrGet == "failed to get device: device not found"
ErrGetAll == "failed to get all devices"

\* a pointer dereference (device.ID, device.SignatureCounter, ...) by the
\* caller that was handed the pointers: the records as they are now
Deref(ptrs) == [a \in ptrs |-> heap[a]]

\* "invalid algorithm: "
InvalidAlgorithmPrefix ==
  <<105, 110, 118, 97, 108, 105, 100, 32, 97, 108, 103, 111, 114, 105,
  116, 104, 109, 58, 32>>

\* "failed to save device: device "
SaveFailedPrefix ==
  <<102, 97, 105, 108, 101, 100, 32, 116, 111, 32, 115, 97, 118, 101,
  32, 100, 101, 118, 105, 99, 101, 58, 32, 100, 101, 118, 105, 99, 101,
  32>>

\* " already exists"
AlreadyExistsSuffix ==
  <<32, 97, 108, 114, 101, 97, 100, 121, 32, 101, 120, 105, 115, 116,
  115>>

\* "already exists"
AlreadyExistsMark ==
  <<97, 108, 114, 101, 97, 100, 121, 32, 101, 120, 105, 115, 116, 115>>

\* fmt.Errorf("invalid algorithm: %s", opts.Algorithm)
InvalidAlgorithmText(alg) == InvalidAlgorithmPrefix \o alg

\* fmt.Errorf("failed to save device: %w", err) around Save's
\* fmt.Errorf("device %s already exists", device.ID)
AlreadyExistsText(id) == SaveFailedPrefix \o id \o AlreadyExistsSuffix

\* strings.Contains
Contains(str, sub) ==
  \E i \in 1..(Len(str) - Len(sub) + 1) :
    SubSeq(str, i, i + Len(sub) - 1) = sub

StatusOK == 200
StatusCreated == 201
StatusConflict == 409
StatusInternalServerError == 500

\* a response that carries the public key along
DeviceResponse_WithKey(d) ==
  [ID |-> d.ID, Label |-> d.Label, Algorithm |-> d.Algorithm,
   SignatureCounter |-> d.SignatureCounter, PublicKey |-> d.PublicKey]

\* the handlers: model.DeviceResponse built from the device
DeviceResponse(d) ==
  [ID |-> d.ID, Label |-> d.Label, Algorithm |-> d.Algorithm,
   SignatureCounter |-> d.SignatureCounter]

\* handlers with a dedicated status (404) for a device that is not found
Status_NotFound(r) ==
  IF r.op = "create"
  THEN IF r.err = "" THEN StatusCreated
       ELSE IF Contains(r.msg, AlreadyExistsMark) THEN StatusConflict
       ELSE StatusInternalServerError
  ELSE IF r.err = "" THEN StatusOK
       ELSE IF r.err \in {ErrNotFound, ErrGet} THEN 404
       ELSE StatusInternalServerError

\* the handlers: the status code written for the result of the service
Status(r) ==
  IF r.op = "create"
  THEN IF r.err = "" THEN StatusCreated
       ELSE IF Contains(r.msg, AlreadyExistsMark) THEN StatusConflict
       ELSE StatusInternalServerError
  ELSE IF r.err = "" THEN StatusOK ELSE StatusInternalServerError

\* the handlers: the result of the service with the response written for
\* it, the device responses by the address of the device they are built of
Respond(r) ==
  [r EXCEPT !.status = Status(r),
            !.body = [a \in DOMAIN r.seen |-> DeviceResponse(r.seen[a])]]

Return(t, r) ==
  /\ ret' = Respond(r)
  /\ pc' = [pc EXCEPT ![t] = "idle"]
  /\ loc' = [loc EXCEPT ![t] = NoLoc]

\* ---- CreateDevice
\* a request arrives; an unrecognised algorithm is rejected at once,
\* otherwise the key pair is generated and the device record is built
EnterCreateDevice(t, id, label, alg) ==
  /\ IF ~ValidAlgorithm(alg)
     THEN /\ Return(t, [NoRet EXCEPT !.op = "create", !.id = id,
                                      !.alg = alg,
                                      !.err = ErrInvalidAlgorithm,
                                      !.msg = InvalidAlgorithmText(alg)])
          /\ UNCHANGED heap
     ELSE /\ heap' = Append(heap, NewDevice(id, label, alg, Len(heap) + 1))
          /\ pc' = [pc EXCEPT ![t] = "cd_lock"]
          /\ loc' = [loc EXCEPT ![t] =
                       [NoLoc EXCEPT !.op = "create", !.id = id,
                                     !.label = label, !.alg = alg,
                                     !.dev = Len(heap) + 1]]
          /\ UNCHANGED ret
  /\ UNCHANGED <<devices, rwReaders, rwWriter, mu, signed, failed>>

\* a call of CreateDevice of the service
CallCreateDevice(t, id, label, alg) ==
  /\ pc[t] = "idle"
  /\ calls < MaxCalls
  /\ calls' = calls + 1
  /\ EnterCreateDevice(t, id, label, alg)

\* Storage.Save: s.mu.Lock() is announced, and granted at once when no
\* reader is inside
CD_SaveLock(t) ==
  /\ pc[t] = "cd_lock"
  /\ LockFree
  /\ rwWriter' = t
  /\ pc' = [pc EXCEPT ![t] = IF ReadersDrained THEN "cd_save" ELSE "cd_wait"]
  /\ UNCHANGED <<heap, devices, rwReaders, mu, loc, ret, signed, failed,
                 calls>>

\* Storage.Save: the announced s.mu.Lock() is granted
CD_SaveWait(t) ==
  /\ pc[t] = "cd_wait"
  /\ ReadersDrained
  /\ pc' = [pc EXCEPT ![t] = "cd_save"]
  /\ UNCHANGED <<heap, devices, rwReaders, rwWriter, mu, loc, ret, signed,
                 failed, calls>>

\* a Save that reports success for a new id without keeping the device
CD_Save_NoInsert(t) ==
  /\ pc[t] = "cd_save"
  /\ rwWriter' = NoThread
  /\ UNCHANGED devices
  /\ IF SaveConflict(loc[t].id)
     THEN Return(t, [NoRet EXCEPT !.op = "create", !.id = loc[t].id,
                                   !.alg = loc[t].alg,
                                   !.err = ErrAlreadyExists,
                                   !.msg = AlreadyExistsText(loc[t].id)])
     ELSE Return(t, [NoRet EXCEPT !.op = "create", !.id = loc[t].id,
                                   !.alg = loc[t].alg,
                                   !.dev = loc[t].dev,
                                   !.seen = Deref({loc[t].dev})])
  /\ UNCHANGED <<heap, rwReaders, mu, signed, failed, calls>>

\* Storage.Save body, its deferred Unlock, and the return of CreateDevice
CD_Save(t) ==
  /\ pc[t] = "cd_save"
  /\ rwWriter' = NoThread
  /\ IF SaveConflict(loc[t].id)
     THEN /\ UNCHANGED devices
          /\ Return(t, [NoRet EXCEPT !.op = "create", !.id = loc[t].id,
                                      !.alg = loc[t].alg,
                                      !.err = ErrAlreadyExists,
                                      !.msg = AlreadyExistsText(loc[t].id)])
     ELSE /\ devices' = [devices EXCEPT ![loc[t].id] = loc[t].dev]
          /\ Return(t, [NoRet EXCEPT !.op = "create", !.id = loc[t].id,
                                      !.alg = loc[t].alg,
                                      !.dev = loc[t].dev,
                                      !.seen = Deref({loc[t].dev})])
  /\ UNCHANGED <<heap, rwReaders, mu, signed, failed, calls>>

\* ---- SignData
\* another request thread is inside SignData for the same device
Overlapping(t) ==
  \E u \in Threads \ {t} : loc[u].op = "sign" /\ loc[u].id = loc[t].id

\* SignData is entered: the thread goes for the service mutex
EnterSignData(t, id, data) ==
  /\ pc' = [pc EXCEPT ![t] = "sd_mu"]
  /\ loc' = [loc EXCEPT ![t] =
               [NoLoc EXCEPT !.op = "sign", !.id = id, !.data = data]]
  /\ UNCHANGED <<heap, devices, rwReaders, rwWriter, mu, ret, signed,
                 failed>>

\* a call of SignData of the service
CallSignData(t, id, data) ==
  /\ pc[t] = "idle"
  /\ calls < MaxCalls
  /\ calls' = calls + 1
  /\ EnterSignData(t, id, data)

\* s.mu.Lock()
SD_Lock(t) ==
  /\ pc[t] = "sd_mu"
  /\ MuFree
  /\ mu' = t
  /\ pc' = [pc EXCEPT ![t] = "sd_rlock"]
  /\ UNCHANGED <<heap, devices, rwReaders, rwWriter, loc, ret, signed,
                 failed, calls>>

\* Storage.GetDevice: s.mu.RLock()
SD_GetLock(t) ==
  /\ pc[t] = "sd_rlock"
  /\ RLockFree
  /\ rwReaders' = rwReaders \cup {t}
  /\ pc' = [pc EXCEPT ![t] = "sd_get"]
  /\ UNCHANGED <<heap, devices, rwWriter, mu, loc, ret, signed, failed,
                 calls>>

\* a SignData that answers a lookup miss with an empty response, no error
SD_Get_NoError(t) ==
  /\ pc[t] = "sd_get"
  /\ rwReaders' = rwReaders \ {t}
  /\ IF ~Exists(loc[t].id)
     THEN /\ mu' = NoThread
          /\ Return(t, [NoRet EXCEPT !.op = "sign", !.id = loc[t].id])
     ELSE /\ pc' = [pc EXCEPT ![t] = "sd_sign"]
          /\ loc' = [loc EXCEPT ![t].dev = devices[loc[t].id],
                       ![t].snapCounter =
                          heap[devices[loc[t].id]].SignatureCounter,
                       ![t].snapLast =
                          heap[devices[loc[t].id]].LastSignature]
          /\ UNCHANGED <<mu, ret>>
  /\ UNCHANGED <<heap, devices, rwWriter, signed, failed, calls>>

\* a SignData that builds a device record of its own when the id is absent
SD_Get_Upsert(t) ==
  /\ pc[t] = "sd_get"
  /\ rwReaders' = rwReaders \ {t}
  /\ pc' = [pc EXCEPT ![t] = "sd_sign"]
  /\ IF ~Exists(loc[t].id)
     THEN /\ heap' = Append(heap, NewDevice(loc[t].id, "", AlgRSA,
                                             Len(heap) + 1))
          /\ loc' = [loc EXCEPT ![t].dev = Len(heap) + 1,
                                ![t].snapLast = InitialSignature(loc[t].id)]
     ELSE /\ UNCHANGED heap
          /\ loc' = [loc EXCEPT ![t].dev = devices[loc[t].id],
                       ![t].snapCounter =
                          heap[devices[loc[t].id]].SignatureCounter,
                       ![t].snapLast =
                          heap[devices[loc[t].id]].LastSignature]
  /\ UNCHANGED <<devices, rwWriter, mu, ret, signed, failed, calls>>

\* Storage.GetDevice body and RUnlock; SignData returns when the device is
\* absent (the deferred s.mu.Unlock() runs), else it holds the pointer
SD_Get(t) ==
  /\ pc[t] = "sd_get"
  /\ rwReaders' = rwReaders \ {t}
  /\ IF ~Exists(loc[t].id)
     THEN /\ mu' = NoThread
          /\ Return(t, [NoRet EXCEPT !.op = "sign", !.id = loc[t].id,
                                      !.err = ErrNotFound])
     ELSE /\ pc' = [pc EXCEPT ![t] = "sd_sign"]
          /\ loc' = [loc EXCEPT ![t].dev = devices[loc[t].id],
                       ![t].snapCounter =
                          heap[devices[loc[t].id]].SignatureCounter,
                       ![t].snapLast =
                          heap[devices[loc[t].id]].LastSignature]
          /\ UNCHANGED <<mu, ret>>
  /\ UNCHANGED <<heap, devices, rwWriter, signed, failed, calls>>

\* a SignData that signs the submitted data instead of the chained payload
\* it returns
SD_Sign_DataOnly(t) ==
  /\ pc[t] = "sd_sign"
  /\ \E rnd \in Rnds :
       LET rec == heap[loc[t].dev]
           payload == DataToBeSigned(rec, loc[t].data)
       IN loc' = [loc EXCEPT ![t].payload = payload,
                             ![t].sig = Sign(rec, loc[t].data, rnd)]
  /\ pc' = [pc EXCEPT ![t] = "sd_inc"]
  /\ UNCHANGED <<heap, devices, rwReaders, rwWriter, mu, ret, signed,
                 failed, calls>>

\* the payload is built from the record and the signer succeeds
SD_Sign(t) ==
  /\ pc[t] = "sd_sign"
  /\ \E rnd \in Rnds :
       LET rec == heap[loc[t].dev]
           payload == DataToBeSigned(rec, loc[t].data)
       IN loc' = [loc EXCEPT ![t].payload = payload,
                             ![t].sig = Sign(rec, payload, rnd)]
  /\ pc' = [pc EXCEPT ![t] = "sd_inc"]
  /\ UNCHANGED <<heap, devices, rwReaders, rwWriter, mu, ret, signed,
                 failed, calls>>

\* a SignData that increments the counter before it signs: the failed
\* signature leaves the incremented counter in the stored record
SD_SignErr_Incremented(t) ==
  /\ pc[t] = "sd_sign"
  /\ mu' = NoThread
  /\ failed' = [failed EXCEPT ![loc[t].id] = @ + 1]
  /\ heap' = [heap EXCEPT ![loc[t].dev].SignatureCounter = @ + 1]
  /\ Return(t, [NoRet EXCEPT !.op = "sign", !.id = loc[t].id,
                              !.err = ErrSign, !.dev = loc[t].dev])
  /\ UNCHANGED <<devices, rwReaders, rwWriter, signed, calls>>

\* a SignData that calls the signer again when it has failed
SD_SignErr_Retry(t) ==
  /\ pc[t] = "sd_sign"
  /\ failed[loc[t].id] < MaxCalls
  /\ failed' = [failed EXCEPT ![loc[t].id] = @ + 1]
  /\ UNCHANGED <<heap, devices, rwReaders, rwWriter, mu, pc, loc, ret,
                 signed, calls>>

\* the signer returns an error: SignData returns it, s.mu is unlocked
SD_SignErr(t) ==
  /\ pc[t] = "sd_sign"
  /\ mu' = NoThread
  /\ failed' = [failed EXCEPT ![loc[t].id] = @ + 1]
  /\ Return(t, [NoRet EXCEPT !.op = "sign", !.id = loc[t].id,
                              !.err = ErrSign, !.dev = loc[t].dev])
  /\ UNCHANGED <<heap, devices, rwReaders, rwWriter, signed, calls>>

\* a SignData that forgets to increment the counter
SD_Inc_Missing(t) ==
  /\ pc[t] = "sd_inc"
  /\ pc' = [pc EXCEPT ![t] = "sd_last"]
  /\ UNCHANGED <<heap, devices, rwReaders, rwWriter, mu, loc, ret, signed,
                 failed, calls>>

\* device.SignatureCounter++ , through the pointer the store holds
SD_Inc(t) ==
  /\ pc[t] = "sd_inc"
  /\ heap' = [heap EXCEPT ![loc[t].dev].SignatureCounter = @ + 1]
  /\ pc' = [pc EXCEPT ![t] = "sd_last"]
  /\ UNCHANGED <<devices, rwReaders, rwWriter, mu, loc, ret, signed,
                 failed, calls>>

\* device.LastSignature = signatureB64, through the same pointer
SD_SetLast(t) ==
  /\ pc[t] = "sd_last"
  /\ heap' = [heap EXCEPT ![loc[t].dev].LastSignature = Base64(loc[t].sig)]
  /\ pc' = [pc EXCEPT ![t] = "sd_wlock"]
  /\ UNCHANGED <<devices, rwReaders, rwWriter, mu, loc, ret, signed,
                 failed, calls>>

\* Storage.Update: s.mu.Lock() is announced, and granted at once when no
\* reader is inside
SD_UpdateLock(t) ==
  /\ pc[t] = "sd_wlock"
  /\ LockFree
  /\ rwWriter' = t
  /\ pc' = [pc EXCEPT ![t] =
               IF ReadersDrained THEN "sd_update" ELSE "sd_wait"]
  /\ UNCHANGED <<heap, devices, rwReaders, mu, loc, ret, signed, failed,
                 calls>>

\* Storage.Update: the announced s.mu.Lock() is granted
SD_UpdateWait(t) ==
  /\ pc[t] = "sd_wait"
  /\ ReadersDrained
  /\ pc' = [pc EXCEPT ![t] = "sd_update"]
  /\ UNCHANGED <<heap, devices, rwReaders, rwWriter, mu, loc, ret, signed,
                 failed, calls>>

\* a SignData whose error return after a failed Update skips the unlock
SD_UpdateErr_KeepsLock(t) ==
  /\ pc[t] = "sd_wlock"
  /\ failed' = [failed EXCEPT ![loc[t].id] = @ + 1]
  /\ Return(t, [NoRet EXCEPT !.op = "sign", !.id = loc[t].id,
                              !.err = ErrUpdate, !.dev = loc[t].dev])
  /\ UNCHANGED <<heap, devices, rwReaders, rwWriter, mu, signed, calls>>

\* Storage.Update returns an error (a DeviceStorage whose Update fails, as
\* the service tests' storage with updateErr set): SignData returns it
SD_UpdateErr(t) ==
  /\ pc[t] = "sd_wlock"
  /\ mu' = NoThread
  /\ failed' = [failed EXCEPT ![loc[t].id] = @ + 1]
  /\ Return(t, [NoRet EXCEPT !.op = "sign", !.id = loc[t].id,
                              !.err = ErrUpdate, !.dev = loc[t].dev])
  /\ UNCHANGED <<heap, devices, rwReaders, rwWriter, signed, calls>>

\* Storage.Update body and Unlock; SignData returns the response and the
\* deferred s.mu.Unlock() runs
SD_Update(t) ==
  /\ pc[t] = "sd_update"
  /\ devices' = [devices EXCEPT ![loc[t].id] = loc[t].dev]
  /\ rwWriter' = NoThread
  /\ mu' = NoThread
  /\ LET resp == [NoRet EXCEPT !.op = "sign", !.id = loc[t].id,
                               !.dev = loc[t].dev,
                               !.Signature = Base64(loc[t].sig),
                               !.SignedData = loc[t].payload]
     IN /\ Return(t, resp)
        /\ signed' = [signed EXCEPT ![loc[t].id] =
                        Append(@, [Signature |-> resp.Signature,
                                   SignedData |-> resp.SignedData,
                                   Data |-> loc[t].data,
                                   Overlap |-> Overlapping(t)])]
  /\ UNCHANGED <<heap, rwReaders, failed, calls>>

\* ---- GetDevice
CallGetDevice(t, id) ==
  /\ pc[t] = "idle"
  /\ calls < MaxCalls
  /\ calls' = calls + 1
  /\ pc' = [pc EXCEPT ![t] = "gd_rlock"]
  /\ loc' = [loc EXCEPT ![t] = [NoLoc EXCEPT !.op = "get", !.id = id]]
  /\ UNCHANGED <<heap, devices, rwReaders, rwWriter, mu, ret, signed,
                 failed>>

\* Storage.GetDevice: s.mu.RLock()
GD_Lock(t) ==
  /\ pc[t] = "gd_rlock"
  /\ RLockFree
  /\ rwReaders' = rwReaders \cup {t}
  /\ pc' = [pc EXCEPT ![t] = "gd_get"]
  /\ UNCHANGED <<heap, devices, rwWriter, mu, loc, ret, signed, failed,
                 calls>>

\* Storage.GetDevice body and RUnlock; GetDevice returns the pointer and
\* its caller reads the record through it
GD_Get(t) ==
  /\ pc[t] = "gd_get"
  /\ rwReaders' = rwReaders \ {t}
  /\ IF ~Exists(loc[t].id)
     THEN Return(t, [NoRet EXCEPT !.op = "get", !.id = loc[t].id,
                                   !.err = ErrGet])
     ELSE Return(t, [NoRet EXCEPT !.op = "get", !.id = loc[t].id,
                                   !.dev = devices[loc[t].id],
                                   !.seen = Deref({devices[loc[t].id]})])
  /\ UNCHANGED <<heap, devices, rwWriter, mu, signed, failed, calls>>

\* ---- GetAllDevices
CallGetAllDevices(t) ==
  /\ pc[t] = "idle"
  /\ calls < MaxCalls
  /\ calls' = calls + 1
  /\ pc' = [pc EXCEPT ![t] = "ga_rlock"]
  /\ loc' = [loc EXCEPT ![t] = [NoLoc EXCEPT !.op = "list"]]
  /\ UNCHANGED <<heap, devices, rwReaders, rwWriter, mu, ret, signed,
                 failed>>

\* Storage.GetAllDevices: s.mu.RLock()
GA_Lock(t) ==
  /\ pc[t] = "ga_rlock"
  /\ RLockFree
  /\ rwReaders' = rwReaders \cup {t}
  /\ pc' = [pc EXCEPT ![t] = "ga_get"]
  /\ UNCHANGED <<heap, devices, rwWriter, mu, loc, ret, signed, failed,
                 calls>>

\* Storage.GetAllDevices returns an error (a DeviceStorage whose
\* GetAllDevices fails, as the service tests' storage with getAllErr set):
\* GetAllDevices of the service returns it
GA_Err(t) ==
  /\ pc[t] = "ga_rlock"
  /\ Return(t, [NoRet EXCEPT !.op = "list", !.err = ErrGetAll])
  /\ UNCHANGED <<heap, devices, rwReaders, rwWriter, mu, signed, failed,
                 calls>>

\* Storage.GetAllDevices body and RUnlock: a new slice of the stored
\* pointers, in map order (unspecified); the caller reads the records
GA_Get(t) ==
  /\ pc[t] = "ga_get"
  /\ rwReaders' = rwReaders \ {t}
  /\ LET list == {devices[i] : i \in {j \in IDs : Exists(j)}}
     IN Return(t, [NoRet EXCEPT !.op = "list", !.list = list,
                                 !.seen = Deref(list)])
  /\ UNCHANGED <<heap, devices, rwWriter, mu, signed, failed, calls>>

Next ==
  \/ \E t \in Threads, id \in IDs, o \in CreateOptions :
       CallCreateDevice(t, id, o.Label, o.Algorithm)
  \/ \E t \in Threads : CD_SaveLock(t)
  \/ \E t \in Threads : CD_SaveWait(t)
  \/ \E t \in Threads : CD_Save(t)
  \/ \E t \in Threads, id \in IDs, data \in Datas : CallSignData(t, id, data)
  \/ \E t \in Threads : SD_Lock(t)
  \/ \E t \in Threads : SD_GetLock(t)
  \/ \E t \in Threads : SD_Get(t)
  \/ \E t \in Threads : SD_Sign(t)
  \/ \E t \in Threads : SD_SignErr(t)
  \/ \E t \in Threads : SD_Inc(t)
  \/ \E t \in Threads : SD_SetLast(t)
  \/ \E t \in Threads : SD_UpdateLock(t)
  \/ \E t \in Threads : SD_UpdateWait(t)
  \/ \E t \in Threads : SD_UpdateErr(t)
  \/ \E t \in Threads : SD_Update(t)
  \/ \E t \in Threads, id \in IDs : CallGetDevice(t, id)
  \/ \E t \in Threads : GD_Lock(t)
  \/ \E t \in Threads : GD_Get(t)
  \/ \E t \in Threads : CallGetAllDevices(t)
  \/ \E t \in Threads : GA_Lock(t)
  \/ \E t \in Threads : GA_Err(t)
  \/ \E t \in Threads : GA_Get(t)

Spec == Init /\ [][Next]_vars

\* the steps of a request thread inside CreateDevice or SignData
WriterStep(t) ==
  \/ CD_SaveLock(t) \/ CD_SaveWait(t) \/ CD_Save(t)
  \/ SD_Lock(t) \/ SD_GetLock(t) \/ SD_Get(t) \/ SD_Sign(t) \/ SD_SignErr(t)
  \/ SD_Inc(t) \/ SD_SetLast(t) \/ SD_UpdateLock(t) \/ SD_UpdateWait(t)
  \/ SD_UpdateErr(t) \/ SD_Update(t)

\* the steps of a request thread inside its handler: a goroutine that can
\* run is eventually run
Step(t) ==
  \/ WriterStep(t)
  \/ GD_Lock(t) \/ GD_Get(t) \/ GA_Lock(t) \/ GA_Err(t) \/ GA_Get(t)

\* the requests of clients that all work on the device "d": what the
\* locks do does not depend on the ids, labels and data of the requests
NextOneDevice ==
  \/ \E t \in Threads : CallCreateDevice(t, <<100>>, "A", AlgRSA)
  \/ \E t \in Threads : CallSignData(t, <<100>>, <<120>>)
  \/ \E t \in Threads : CallGetDevice(t, <<100>>)
  \/ \E t \in Threads : CallGetAllDevices(t)
  \/ \E t \in Threads : Step(t)

FairSpec ==
  Init /\ [][NextOneDevice]_vars /\ \A t \in Threads : WF_vars(Step(t))

\* ---- readers that keep arriving while a writer asks for the store
\* a Save or an Update has asked for the write lock and has not got it
WriterAsking ==
  \E u \in Threads : pc[u] \in {"cd_lock", "cd_wait", "sd_wlock", "sd_wait"}

\* one more GetDevice or GetAllDevices call, outside the bound on the
\* number of calls; only what it does to the lock is kept
RD_Arrive(t) ==
  /\ pc[t] = "idle"
  /\ WriterAsking
  /\ pc' = [pc EXCEPT ![t] = "rd_rlock"]
  /\ UNCHANGED <<heap, devices, rwReaders, rwWriter, mu, loc, ret, signed,
                 failed, calls>>

\* Storage.GetDevice / GetAllDevices: s.mu.RLock()
RD_Lock(t) ==
  /\ pc[t] = "rd_rlock"
  /\ RLockFree
  /\ rwReaders' = rwReaders \cup {t}
  /\ pc' = [pc EXCEPT ![t] = "rd_get"]
  /\ UNCHANGED <<heap, devices, rwWriter, mu, loc, ret, signed, failed,
                 calls>>

\* Storage.GetDevice / GetAllDevices: the body and the deferred RUnlock
RD_Get(t) ==
  /\ pc[t] = "rd_get"
  /\ rwReaders' = rwReaders \ {t}
  /\ pc' = [pc EXCEPT ![t] = "idle"]
  /\ UNCHANGED <<heap, devices, rwWriter, mu, loc, ret, signed, failed,
                 calls>>

\* the reader steps of a request thread
ReaderStep(t) == RD_Lock(t) \/ RD_Get(t)

\* CreateDevice and SignData calls on the device "d", within the bound on
\* the number of calls, and the readers
NextReaders ==
  \/ \E t \in Threads : CallCreateDevice(t, <<100>>, "A", AlgRSA)
  \/ \E t \in Threads : CallSignData(t, <<100>>, <<120>>)
  \/ \E t \in Threads : WriterStep(t)
  \/ \E t \in Threads : RD_Arrive(t)
  \/ \E t \in Threads : ReaderStep(t)

ReadersSpec ==
  /\ Init /\ [][NextReaders]_vars
  /\ \A t \in Threads : WF_vars(WriterStep(t) \/ ReaderStep(t))

\* ---- the store on its own: a client that builds device records, changes
\* them through its pointers and calls Save, Update, GetDevice and
\* GetAllDevices of InMemoryStorage one after the other
\* the ids of the client's devices: "d", "k1" and the empty id
StorageIDs == IDs \cup {<<>>}
Labels == {"A", "B"}

\* the error strings of the store
ErrDeviceExists == "device already exists"
ErrDeviceNotFound == "device not found"

\* NewInMemoryStorage
InitStorage ==
  /\ heap = <<>>
  /\ devices = [i \in StorageIDs |-> Nil]
  /\ rwReaders = {}
  /\ rwWriter = NoThread
  /\ mu = NoThread
  /\ pc = [t \in Threads |-> "idle"]
  /\ loc = [t \in Threads |-> NoLoc]
  /\ ret = NoRet
  /\ signed = [i \in IDs |-> <<>>]
  /\ failed = [i \in IDs |-> 0]
  /\ calls = 0

\* "initial"
TestSignature == <<105, 110, 105, 116, 105, 97, 108>>

\* createTestDevice of the storage tests: a record with a fresh key pair,
\* counter 0 and the lastSignature "initial"
TestDevice(id, label, key) ==
  [NewDevice(id, label, AlgRSA, key) EXCEPT !.LastSignature = TestSignature]

\* the client builds a device record
ST_New(id, label) ==
  /\ calls < MaxCalls
  /\ calls' = calls + 1
  /\ heap' = Append(heap, TestDevice(id, label, Len(heap) + 1))
  /\ UNCHANGED <<devices, rwReaders, rwWriter, mu, pc, loc, ret, signed,
                 failed>>

\* the client writes the label and the next counter value into a record it
\* holds: "device.Label = ...", "device.SignatureCounter = i"
ST_Set(a, label) ==
  /\ calls < MaxCalls
  /\ calls' = calls + 1
  /\ a \in 1..Len(heap)
  /\ heap' = [heap EXCEPT ![a].Label = label, ![a].SignatureCounter = @ + 1]
  /\ UNCHANGED <<devices, rwReaders, rwWriter, mu, pc, loc, ret, signed,
                 failed>>

\* InMemoryStorage.Save, from Lock to the deferred Unlock; with the error
\* it returns, ret keeps the id and the device the call was given
ST_Save(a) ==
  /\ calls < MaxCalls
  /\ calls' = calls + 1
  /\ a \in 1..Len(heap)
  /\ IF SaveConflict(heap[a].ID)
     THEN /\ UNCHANGED devices
          /\ ret' = [NoRet EXCEPT !.op = "save", !.id = heap[a].ID,
                                  !.dev = a, !.err = ErrDeviceExists]
     ELSE /\ devices' = [devices EXCEPT ![heap[a].ID] = a]
          /\ ret' = [NoRet EXCEPT !.op = "save", !.id = heap[a].ID,
                                  !.dev = a]
  /\ UNCHANGED <<heap, rwReaders, rwWriter, mu, pc, loc, signed, failed>>

\* an Update that refuses a device whose id is not stored
ST_Update_OnlyExisting(a) ==
  /\ calls < MaxCalls
  /\ calls' = calls + 1
  /\ a \in 1..Len(heap)
  /\ IF Exists(heap[a].ID)
     THEN /\ devices' = [devices EXCEPT ![heap[a].ID] = a]
          /\ ret' = [NoRet EXCEPT !.op = "update", !.id = heap[a].ID,
                                  !.dev = a]
     ELSE /\ UNCHANGED devices
          /\ ret' = [NoRet EXCEPT !.op = "update", !.id = heap[a].ID,
                                  !.dev = a, !.err = ErrDeviceNotFound]
  /\ UNCHANGED <<heap, rwReaders, rwWriter, mu, pc, loc, signed, failed>>

\* InMemoryStorage.Update, from Lock to the deferred Unlock
ST_Update(a) ==
  /\ calls < MaxCalls
  /\ calls' = calls + 1
  /\ a \in 1..Len(heap)
  /\ devices' = [devices EXCEPT ![heap[a].ID] = a]
  /\ ret' = [NoRet EXCEPT !.op = "update", !.id = heap[a].ID, !.dev = a]
  /\ UNCHANGED <<heap, rwReaders, rwWriter, mu, pc, loc, signed, failed>>

\* a GetDevice that answers a miss with no device and no error
ST_GetDevice_NoError(id) ==
  /\ calls < MaxCalls
  /\ calls' = calls + 1
  /\ IF ~Exists(id)
     THEN ret' = [NoRet EXCEPT !.op = "get", !.id = id]
     ELSE ret' = [NoRet EXCEPT !.op = "get", !.id = id, !.dev = devices[id],
                               !.seen = Deref({devices[id]})]
  /\ UNCHANGED <<heap, devices, rwReaders, rwWriter, mu, pc, loc, signed,
                 failed>>

\* InMemoryStorage.GetDevice, from RLock to the deferred RUnlock; the
\* client reads the record through the pointer it got
ST_GetDevice(id) ==
  /\ calls < MaxCalls
  /\ calls' = calls + 1
  /\ IF ~Exists(id)
     THEN ret' = [NoRet EXCEPT !.op = "get", !.id = id,
                               !.err = ErrDeviceNotFound]
     ELSE ret' = [NoRet EXCEPT !.op = "get", !.id = id, !.dev = devices[id],
                               !.seen = Deref({devices[id]})]
  /\ UNCHANGED <<heap, devices, rwReaders, rwWriter, mu, pc, loc, signed,
                 failed>>

\* InMemoryStorage.GetAllDevices, from RLock to the deferred RUnlock
ST_GetAllDevices ==
  /\ calls < MaxCalls
  /\ calls' = calls + 1
  /\ LET list == {devices[i] : i \in {j \in StorageIDs : Exists(j)}}
     IN ret' = [NoRet EXCEPT !.op = "list", !.list = list,
                             !.seen = Deref(list)]
  /\ UNCHANGED <<heap, devices, rwReaders, rwWriter, mu, pc, loc, signed,
                 failed>>

NextStorage ==
  \/ \E id \in StorageIDs, label \in Labels : ST_New(id, label)
  \/ \E a \in 1..MaxCalls, label \in Labels : ST_Set(a, label)
  \/ \E a \in 1..MaxCalls : ST_Save(a)
  \/ \E a \in 1..MaxCalls : ST_Update(a)
  \/ \E id \in StorageIDs : ST_GetDevice(id)
  \/ ST_GetAllDevices

StorageSpec == InitStorage /\ [][NextStorage]_vars

\* ---- the HTTP handlers of create and sign, from the request on
\* the ids of the requests: the empty id and "d"
HandlerIDs == {<<>>, <<100>>}
MethodPost == "POST"
MethodGet == "GET"
StatusBadRequest == 400
StatusMethodNotAllowed == 405

\* the requests the clients send: a method, a body that decodes as JSON or
\* does not, and the id the body or the path carries; the bodies that
\* decode carry the label "A" and the algorithm "RSA", or the data "x"
Requests ==
  {[method |-> MethodPost, decodes |-> TRUE, id |-> <<>>],
   [method |-> MethodPost, decodes |-> TRUE, id |-> <<100>>],
   [method |-> MethodPost, decodes |-> FALSE, id |-> <<100>>],
   [method |-> MethodGet, decodes |-> FALSE, id |-> <<100>>]}

\* NewInMemoryStorage, NewSignatureDeviceService, NewServer
InitHandlers ==
  /\ heap = <<>>
  /\ devices = [i \in HandlerIDs |-> Nil]
  /\ rwReaders = {}
  /\ rwWriter = NoThread
  /\ mu = NoThread
  /\ pc = [t \in Threads |-> "idle"]
  /\ loc = [t \in Threads |-> NoLoc]
  /\ ret = NoRet
  /\ signed = [i \in HandlerIDs |-> <<>>]
  /\ failed = [i \in HandlerIDs |-> 0]
  /\ calls = 0

\* a request reaches the handler op ("h_create" or "h_sign")
Receive(t, op, r) ==
  /\ pc[t] = "idle"
  /\ calls < MaxCalls
  /\ calls' = calls + 1
  /\ pc' = [pc EXCEPT ![t] = op]
  /\ loc' = [loc EXCEPT ![t] =
               [NoLoc EXCEPT !.method = r.method, !.decodes = r.decodes,
                             !.id = r.id]]
  /\ UNCHANGED <<heap, devices, rwReaders, rwWriter, mu, ret, signed,
                 failed>>

\* WriteErrorResponse(w, status, ...) and return, before the service is called
Reject(t, op, status) ==
  /\ ret' = [NoRet EXCEPT !.op = op, !.status = status]
  /\ pc' = [pc EXCEPT ![t] = "idle"]
  /\ loc' = [loc EXCEPT ![t] = NoLoc]
  /\ UNCHANGED <<heap, devices, rwReaders, rwWriter, mu, signed, failed>>

\* a create handler that hands the zero request of a body that does not
\* decode on to the service
H_CreateDevice_NoDecodeCheck(t) ==
  /\ pc[t] = "h_create"
  /\ UNCHANGED calls
  /\ IF loc[t].method # MethodPost
     THEN Reject(t, "create", StatusMethodNotAllowed)
     ELSE EnterCreateDevice(t, loc[t].id, "A", AlgRSA)

\* Server.CreateDevice: the method check, the decoding of the body, and
\* the call of the service
H_CreateDevice(t) ==
  /\ pc[t] = "h_create"
  /\ UNCHANGED calls
  /\ IF loc[t].method # MethodPost
     THEN Reject(t, "create", StatusMethodNotAllowed)
     ELSE IF ~loc[t].decodes
     THEN Reject(t, "create", StatusBadRequest)
     ELSE EnterCreateDevice(t, loc[t].id, "A", AlgRSA)

\* Server.SignData: the method check, the decoding of the body, and the
\* call of the service with the id of the path
H_SignData(t) ==
  /\ pc[t] = "h_sign"
  /\ UNCHANGED calls
  /\ IF loc[t].method # MethodPost
     THEN Reject(t, "sign", StatusMethodNotAllowed)
     ELSE IF ~loc[t].decodes
     THEN Reject(t, "sign", StatusBadRequest)
     ELSE EnterSignData(t, loc[t].id, <<120>>)

NextHandlers ==
  \/ \E t \in Threads, r \in Requests : Receive(t, "h_create", r)
  \/ \E t \in Threads, r \in Requests : Receive(t, "h_sign", r)
  \/ \E t \in Threads : H_CreateDevice(t)
  \/ \E t \in Threads : H_SignData(t)
  \/ \E t \in Threads : CallGetDevice(t, <<100>>)
  \/ \E t \in Threads : WriterStep(t) \/ GD_Lock(t) \/ GD_Get(t)

HandlerSpec == InitHandlers /\ [][NextHandlers]_vars

TypeOK ==
  /\ mu \in Threads \cup {NoThread}
  /\ rwWriter \in Threads \cup {NoThread}
  /\ rwReaders \subseteq Threads
  /\ Len(heap) <= MaxCalls
  /\ \A i \in IDs : devices[i] \in 0..Len(heap)

\* ------------------------------------------------------------ properties
\* the stored record of a device id
Stored(id) == heap[devices[id]]

\* the counter values embedded in the signedData of the successful calls
Counters(id) ==
  [k \in 1..Len(signed[id]) |-> CounterField(signed[id][k].SignedData, 0)]

\* a SignData call on the device is in progress
Signing(id) == \E t \in Threads : loc[t].op = "sign" /\ loc[t].id = id

\* the thread is between its read of the device and the return of Update
InWindow(t) ==
  pc[t] \in {"sd_get", "sd_sign", "sd_inc", "sd_last", "sd_wlock", "sd_wait",
             "sd_update"}

\* value of a character of the base64 alphabet
B64Index(c) ==
  IF c >= 97 THEN c - 71
  ELSE IF c >= 65 THEN c - 65
  ELSE IF c >= 48 THEN c + 4
  ELSE IF c = 43 THEN 62
  ELSE 63

RECURSIVE Base64Decode(_)
\* the bytes a base64 string encodes
Base64Decode(s) ==
  IF Len(s) < 4 THEN <<>>
  ELSE
    LET n == B64Index(s[1]) * 262144 + B64Index(s[2]) * 4096
             + (IF s[3] = B64Pad THEN 0 ELSE B64Index(s[3]) * 64)
             + (IF s[4] = B64Pad THEN 0 ELSE B64Index(s[4]))
    IN IF s[3] = B64Pad THEN <<n \div 65536>>
       ELSE IF s[4] = B64Pad THEN <<n \div 65536, (n \div 256) % 256>>
       ELSE <<n \div 65536, (n \div 256) % 256, n % 256>>
            \o Base64Decode(SubSeq(s, 5, Len(s)))

\* the signature bytes are a signature made with the key of the device
SignedBy(dev, sig) ==
  IF dev.Algorithm = AlgRSA
  THEN Len(sig) >= 2 /\ sig[1] = 82 /\ sig[2] = dev.PrivateKey
  ELSE Len(sig) >= 3 /\ sig[1] = 69 /\ sig[2] = dev.PrivateKey

\* the payload the signature bytes are a signature of
SignedPayload(dev, sig) ==
  IF dev.Algorithm = AlgRSA THEN SubSeq(sig, 3, Len(sig))
  ELSE SubSeq(sig, 4, Len(sig))

C2_StoredCounterIsN ==
  \A id \in IDs :
    (Exists(id) /\ failed[id] = 0 /\ ~Signing(id)) =>
      Stored(id).SignatureCounter = Len(signed[id])

\* two overlapping calls have completed and the stored counter is read
C2_Witness ==
  \E id \in IDs :
    /\ Exists(id) /\ failed[id] = 0 /\ ~Signing(id)
    /\ Len(signed[id]) = 2
    /\ \E k \in 1..2 : signed[id][k].Overlap
    /\ Stored(id).SignatureCounter = 2

\* C3: the k-th successful SignData of a device returns the signedData
\* "<k>_<data>_<prev>", prev being the signature returned by the (k-1)-th
\* successful call, or base64(id) for k = 0.
C3_Chaining ==
  \A id \in IDs : \A k \in 1..Len(signed[id]) :
    signed[id][k].SignedData =
      Sprintf(k - 1, signed[id][k].Data,
              IF k = 1 THEN Base64(id) ELSE signed[id][k - 1].Signature)

\* C4: at most one SignData is between its read of the device and the
\* return of its Update.
C4_MutualExclusion ==
  Cardinality({t \in Threads : InWindow(t)}) <= 1

\* one SignData is inside the window, a second one waits for the lock
C4_Witness ==
  \E t, u \in Threads :
    /\ pc[t] = "sd_inc"
    /\ pc[u] = "sd_mu"

\* C5: a SignData whose signer fails returns an error and leaves the
\* stored counter and lastSignature of the device as they were.
C5_SignerFailureMutatesNothing ==
  [][\A t \in Threads :
       (pc[t] = "sd_sign" /\ pc'[t] = "idle") =>
         /\ ret'.op = "sign" /\ ret'.id = loc[t].id
         /\ ret'.err = ErrSign
         /\ ret'.Signature = <<>> /\ ret'.SignedData = <<>>
         /\ devices'[loc[t].id] = loc[t].dev
         /\ heap'[loc[t].dev].SignatureCounter = loc[t].snapCounter
         /\ heap'[loc[t].dev].LastSignature = loc[t].snapLast]_vars

\* a signer failure on a device that has signed before
C5_Witness ==
  /\ ret.op = "sign" /\ ret.err = ErrSign
  /\ Len(signed[ret.id]) >= 1
  /\ Stored(ret.id).SignatureCounter = Len(signed[ret.id])

\* C6: failed calls consume no counter value: the counters of the
\* successful calls of a device are 0, 1, 2, ... in order.
C6_NoCounterSkipped ==
  \A id \in IDs : \A k \in 1..Len(signed[id]) : Counters(id)[k] = k - 1

\* C7: the stored counter of a device is never negative and every step
\* leaves it unchanged or adds exactly one.
C7_CounterSteps ==
  [][\A id \in IDs :
       Exists(id) =>
         /\ devices'[id] # Nil
         /\ Stored(id).SignatureCounter >= 0
         /\ heap'[devices'[id]].SignatureCounter - Stored(id).SignatureCounter
              \in {0, 1}]_vars

\* a CreateDevice reusing the id of a device that has signed was rejected
C7_Witness ==
  /\ ret.op = "create" /\ ret.err = ErrAlreadyExists
  /\ Exists(ret.id)
  /\ Stored(ret.id).SignatureCounter >= 1

C9_CreateThenGet ==
  [][/\ \A t \in Threads :
          (pc[t] = "cd_save" /\ pc'[t] = "idle" /\ ret'.err = "") =>
            /\ ret'.dev = loc[t].dev
            /\ devices'[loc[t].id] = ret'.dev
            /\ heap'[ret'.dev].ID = loc[t].id
            /\ heap'[ret'.dev].Label = loc[t].label
            /\ heap'[ret'.dev].Algorithm = loc[t].alg
            /\ heap'[ret'.dev].Algorithm \in {AlgRSA, AlgECC}
            /\ heap'[ret'.dev].SignatureCounter = 0
            /\ heap'[ret'.dev].LastSignature = Base64(loc[t].id)
     /\ \A id \in IDs : Exists(id) => devices'[id] = devices[id]
     /\ \A t \in Threads :
          (pc[t] = "gd_get" /\ pc'[t] = "idle" /\ Exists(loc[t].id)) =>
            /\ ret'.err = ""
            /\ ret'.dev = devices[loc[t].id]
            /\ heap'[ret'.dev].ID = loc[t].id]_vars

\* GetDevice has returned a device that was created and has not signed
C9_Witness ==
  /\ ret.op = "get" /\ ret.err = "" /\ ret.dev # Nil
  /\ heap[ret.dev].Algorithm = AlgECC
  /\ heap[ret.dev].SignatureCounter = 0
  /\ heap[ret.dev].LastSignature = Base64(ret.id)

\* C10: in every state the stored counter and lastSignature agree: counter
\* 0 goes with base64(id), counter c > 0 with the base64 signature, by the
\* device's signer, of a payload built with counter c - 1.
C10_CounterAndLastSignatureAgree ==
  \A id \in IDs :
    Exists(id) =>
      LET d == Stored(id)
          sig == Base64Decode(d.LastSignature)
      IN /\ d.SignatureCounter = 0 => d.LastSignature = Base64(id)
         /\ d.SignatureCounter > 0 =>
              /\ Base64(sig) = d.LastSignature
              /\ SignedBy(d, sig)
              /\ CounterField(SignedPayload(d, sig), 0) = d.SignatureCounter - 1

\* the counter and lastSignature of a record belong together: counter 0
\* with base64(id), counter c > 0 with a signature over counter c - 1
PairAgrees(d) ==
  LET sig == Base64Decode(d.LastSignature)
  IN /\ d.SignatureCounter = 0 => d.LastSignature = Base64(d.ID)
     /\ d.SignatureCounter > 0 =>
          /\ Base64(sig) = d.LastSignature
          /\ SignedBy(d, sig)
          /\ CounterField(SignedPayload(d, sig), 0) = d.SignatureCounter - 1

\* C11: the record a GetDevice or GetAllDevices caller reads, also while a
\* SignData runs, carries a counter and a lastSignature that belong
\* together: the pair from before the SignData or the pair from after it.
C11_ReadersSeeWholeRecords ==
  ret.op \in {"get", "list"} =>
    \A a \in DOMAIN ret.seen : PairAgrees(ret.seen[a])

\* the thread is between s.mu.Lock() and the deferred s.mu.Unlock()
HoldsMu(t) ==
  pc[t] \in {"sd_rlock", "sd_get", "sd_sign", "sd_inc", "sd_last", "sd_wlock",
             "sd_wait", "sd_update"}

\* C12: the service lock is held only by a thread inside SignData: every
\* return of SignData (device not found, signer failure, Update failure,
\* success) has released it, and it is free whenever no SignData is in
\* progress.
C12_LockReleasedOnEveryExit ==
  /\ mu # NoThread => HoldsMu(mu)
  /\ (\A t \in Threads : loc[t].op # "sign") => mu = NoThread

\* a SignData has failed on one device, another one has returned not found,
\* none is in progress and the lock is free
C12_Witness ==
  /\ ret.op = "sign" /\ ret.err = ErrNotFound
  /\ \E id \in IDs : failed[id] >= 1
  /\ \A t \in Threads : loc[t].op # "sign"
  /\ mu = NoThread

\* C13: under fair scheduling every call that was invoked returns: no
\* thread waits for ever for the service mutex or the storage lock.
C13_EveryCallReturns ==
  \A t \in Threads : (pc[t] # "idle") ~> (pc[t] = "idle")

\* the holder of the service mutex waits, inside Update, for a GetDevice
\* to leave the store
C13_Witness ==
  \E u, r \in Threads :
    /\ mu = u /\ pc[u] = "sd_wait"
    /\ r \in rwReaders /\ pc[r] = "gd_get"

\* C14: a SignData whose device id is absent returns the not-found error
\* and no response, goes on neither to the signer nor to Update, and
\* leaves the store and every device record as they were.
C14_SignUnknownDevice ==
  [][\A t \in Threads :
       (pc[t] = "sd_get" /\ pc'[t] # "sd_get" /\ devices[loc[t].id] = Nil) =>
         /\ pc'[t] = "idle"
         /\ ret'.op = "sign" /\ ret'.id = loc[t].id
         /\ ret'.err = ErrNotFound
         /\ ret'.dev = Nil
         /\ ret'.Signature = <<>> /\ ret'.SignedData = <<>>
         /\ heap' = heap /\ devices' = devices /\ signed' = signed]_vars

\* a SignData on an absent id has returned while another device, which has
\* signed before, is stored
C14_Witness ==
  /\ ret.op = "sign" /\ ret.err = ErrNotFound
  /\ ~Exists(ret.id)
  /\ \E id \in IDs : Exists(id) /\ Stored(id).SignatureCounter = 1

\* C15: a CreateDevice whose algorithm is not "RSA" or "ECC" (the empty
\* string too) fails with the invalid-algorithm error before any key is
\* generated or record built, returns no device and leaves the store
\* unchanged; no other CreateDevice fails with that error.
C15_InvalidAlgorithmRejected ==
  [][/\ \A a \in 1..Len(heap') : heap'[a].Algorithm \in {AlgRSA, AlgECC}
     /\ ret'.op = "create" =>
          (ret'.alg \notin {AlgRSA, AlgECC} <=> ret'.err = ErrInvalidAlgorithm)
     /\ (ret'.op = "create" /\ ret'.err = ErrInvalidAlgorithm) =>
          ret'.dev = Nil
     /\ (calls' = calls + 1 /\ pc' = pc) =>
          /\ ret'.op = "create" /\ ret'.err = ErrInvalidAlgorithm
          /\ heap' = heap /\ devices' = devices]_vars

\* a CreateDevice without an algorithm was rejected while a device is stored
C15_Witness ==
  /\ ret.op = "create" /\ ret.alg = <<>>
  /\ ret.err = ErrInvalidAlgorithm /\ ret.dev = Nil
  /\ \E id \in IDs : Exists(id)

\* the thread is inside the critical section of Save or Update
InsideWrite(t) == pc[t] \in {"cd_save", "sd_update"}

\* the thread is inside the critical section of GetDevice or GetAllDevices
InsideRead(t) == pc[t] \in {"sd_get", "gd_get", "ga_get"}

\* C16: while a Save or an Update is inside the critical section of the
\* store no other storage operation is inside it; GetDevice and
\* GetAllDevices may be inside together (the witness).
C16_ReadersWriterDiscipline ==
  (\E t \in Threads : InsideWrite(t)) =>
    Cardinality({t \in Threads : InsideWrite(t) \/ InsideRead(t)}) = 1

\* a GetDevice and a GetAllDevices are inside the critical section together
C16_Witness ==
  \E t, u \in Threads :
    /\ t # u
    /\ pc[t] = "gd_get" /\ pc[u] = "ga_get"
    /\ {t, u} \subseteq rwReaders

\* C17: under fair scheduling a Save or an Update that waits for the
\* readers inside the store gets the write lock, also when GetDevice and
\* GetAllDevices calls keep arriving.
C17_WriterNotStarved ==
  (\E t \in Threads : pc[t] \in {"cd_wait", "sd_wait"}) ~>
    (\E t \in Threads : rwWriter = t /\ pc[t] \in {"cd_save", "sd_update"})

\* a Save waits for a reader inside the store while the number of calls
\* that change the store is used up: only readers can still arrive
C17_Witness ==
  \E t, r \in Threads :
    /\ pc[t] = "cd_wait" /\ rwWriter = t
    /\ r \in rwReaders
    /\ calls = MaxCalls

\* C18: the list GetAllDevices returned is an independent copy: what the
\* service does later leaves its elements as they were when the list was
\* returned.
C18_ListIsIndependentCopy ==
  ret.op = "list" => \A a \in ret.list : heap[a] = ret.seen[a]

\* the four fields of a device the clients are shown
Public(d) == <<d.ID, d.Label, d.Algorithm, d.SignatureCounter>>

\* C19: the device responses of the create, get and list handlers carry
\* the id, label, algorithm and counter of the device and nothing else:
\* devices that agree on the four get the same response, whatever their
\* keys and lastSignature.
C19_ResponsesHideKeys ==
  /\ \A a \in DOMAIN ret.body :
       /\ DOMAIN ret.body[a] = {"ID", "Label", "Algorithm", "SignatureCounter"}
       /\ Public(ret.body[a]) = Public(ret.seen[a])
  /\ \A x, y \in 1..Len(heap) :
       Public(heap[x]) = Public(heap[y]) =>
         DeviceResponse(heap[x]) = DeviceResponse(heap[y])

\* a device was shown to a client while a second record with the same
\* four fields and another key exists
C19_Witness ==
  /\ ret.op \in {"get", "list"} /\ ret.status = StatusOK
  /\ \E a \in DOMAIN ret.body : \E y \in 1..Len(heap) :
       /\ Public(heap[y]) = Public(ret.seen[a])
       /\ heap[y].PrivateKey # ret.seen[a].PrivateKey

\* C20: the create handler answers 409 exactly when the id was present
\* in the store when Save ran.
C20_ConflictOnlyForDuplicateId ==
  ret.op = "create" =>
    (ret.status = StatusConflict <=> ret.err = ErrAlreadyExists)

\* C21: every create request whose algorithm is neither "RSA" nor "ECC" is
\* answered with status 500 and creates no device.
C21_UnknownAlgorithmIs500 ==
  (ret.op = "create" /\ ret.alg \notin {AlgRSA, AlgECC}) =>
    /\ ret.status = StatusInternalServerError
    /\ ret.dev = Nil

\* C22: a sign request or a get request for an id that is not stored is
\* answered with status 500, with no device or signature in the body, and
\* changes neither the store nor a record.
C22_UnknownDeviceIs500 ==
  [][\A t \in Threads :
       (/\ pc[t] \in {"sd_get", "gd_get"}
        /\ pc'[t] # pc[t]
        /\ devices[loc[t].id] = Nil) =>
         /\ pc'[t] = "idle"
         /\ ret'.op = loc[t].op /\ ret'.id = loc[t].id
         /\ ret'.err # ""
         /\ ret'.status = StatusInternalServerError
         /\ ret'.body = <<>>
         /\ ret'.Signature = <<>> /\ ret'.SignedData = <<>>
         /\ heap' = heap /\ devices' = devices /\ signed' = signed]_vars

\* a get request for an absent id was answered 500 while another device,
\* which has signed, is stored
C22_Witness ==
  /\ ret.op = "get" /\ ret.err = ErrGet
  /\ ret.status = StatusInternalServerError
  /\ ~Exists(ret.id)
  /\ \E id \in IDs : Exists(id) /\ Len(signed[id]) = 1

\* the ids that are stored
StoredIds == {id \in IDs : devices[id] # Nil}

\* C23: an id is stored from the moment a CreateDevice for it succeeds,
\* not before, and stays stored; GetAllDevices returns without error
\* exactly one record per stored id, so an empty list while nothing is
\* stored.
C23_ListIsTheCreatedDevices ==
  [][/\ \A id \in IDs :
          devices'[id] # Nil <=>
            \/ devices[id] # Nil
            \/ \E t \in Threads :
                 /\ pc[t] = "cd_save" /\ pc'[t] = "idle"
                 /\ loc[t].id = id
                 /\ ret'.op = "create" /\ ret'.err = ""
     /\ \A t \in Threads :
          (pc[t] = "ga_get" /\ pc'[t] = "idle") =>
            /\ ret'.op = "list" /\ ret'.err = ""
            /\ ret'.status = StatusOK
            /\ {heap[a].ID : a \in ret'.list} = StoredIds
            /\ Cardinality(ret'.list) = Cardinality(StoredIds)
            /\ DOMAIN ret'.body = ret'.list
            /\ \A a \in ret'.list : ret'.body[a].ID = heap[a].ID]_vars

\* GetAllDevices has returned the devices of two CreateDevice calls
C23_Witness ==
  /\ ret.op = "list" /\ ret.err = ""
  /\ Cardinality(ret.list) = 2
  /\ StoredIds = IDs

\* C24: while no SignData runs on a device, its stored lastSignature is
\* the signature the last successful SignData returned, and it is
\* base64(id) exactly when no SignData has succeeded on the device.
C24_LastSignatureIsLastReturned ==
  \A id \in IDs :
    (Exists(id) /\ ~Signing(id)) =>
      /\ Len(signed[id]) > 0 =>
           Stored(id).LastSignature = signed[id][Len(signed[id])].Signature
      /\ Stored(id).LastSignature = Base64(id) <=> Len(signed[id]) = 0

\* the string starts with the prefix
HasPrefix(str, prefix) ==
  Len(str) >= Len(prefix) /\ SubSeq(str, 1, Len(prefix)) = prefix

\* the SignData calls of the device so far have run one after the other
\* and all have succeeded
Sequential(id) ==
  /\ failed[id] = 0
  /\ \A k \in 1..Len(signed[id]) : ~signed[id][k].Overlap

C26_StorageErrorsAreReturned ==
  [][/\ \A t \in Threads :
          (\/ /\ pc[t] = "cd_save" /\ pc'[t] = "idle"
              /\ devices[loc[t].id] # Nil
           \/ /\ pc[t] \in {"sd_get", "gd_get"} /\ pc'[t] # pc[t]
              /\ devices[loc[t].id] = Nil
           \/ pc[t] = "sd_wlock" /\ pc'[t] = "idle"
           \/ pc[t] = "ga_rlock" /\ pc'[t] = "idle") =>
            /\ pc'[t] = "idle"
            /\ ret'.op = loc[t].op
            /\ ret'.err # ""
     /\ ret'.err # "" =>
          /\ ret'.op # "sign" => ret'.dev = Nil
          /\ ret'.Signature = <<>> /\ ret'.SignedData = <<>>
          /\ ret'.list = {} /\ ret'.seen = <<>> /\ ret'.body = <<>>
          /\ ret'.status \notin {StatusOK, StatusCreated}]_vars

\* GetAllDevices has failed in the storage while a device is stored
C26_Witness ==
  /\ ret.op = "list" /\ ret.err = ErrGetAll
  /\ ret.list = {}
  /\ StoredIds # {}

\* C27: the id, the algorithm and the key pair of a stored device (and so
\* the signer bound to it) are those of its creation: no step changes them.
C27_IdentityIsFixed ==
  [][\A id \in IDs :
       Exists(id) =>
         /\ devices'[id] # Nil
         /\ heap'[devices'[id]].ID = id
         /\ heap'[devices'[id]].Algorithm = Stored(id).Algorithm
         /\ heap'[devices'[id]].PublicKey = Stored(id).PublicKey
         /\ heap'[devices'[id]].PrivateKey = Stored(id).PrivateKey
         /\ \A k \in 1..Len(signed'[id]) :
              SignedBy(Stored(id), Base64Decode(signed'[id][k].Signature))]_vars

\* a device has signed, and a CreateDevice with its id and the other
\* algorithm was rejected
C27_Witness ==
  /\ ret.op = "create" /\ ret.err = ErrAlreadyExists
  /\ Exists(ret.id)
  /\ ret.alg # Stored(ret.id).Algorithm
  /\ Len(signed[ret.id]) = 1

\* the record but for its counter and lastSignature
Frame(d) == [d EXCEPT !.SignatureCounter = 0, !.LastSignature = <<>>]

\* C28: a step changes a device record only if it is a step of a SignData
\* on that device, and then only its counter or lastSignature; GetDevice,
\* GetAllDevices, a failed CreateDevice and a SignData on another device
\* leave it as it is.
C28_OnlySignDataMutates ==
  [][/\ \A id \in IDs : Exists(id) => devices'[id] = devices[id]
     /\ \A a \in 1..Len(heap) :
          heap'[a] # heap[a] =>
            /\ Frame(heap'[a]) = Frame(heap[a])
            /\ \E t \in Threads :
                 /\ loc[t].op = "sign" /\ loc[t].dev = a
                 /\ loc[t].id = heap[a].ID
                 /\ pc'[t] # pc[t]
                 /\ \A u \in Threads \ {t} : pc'[u] = pc[u]]_vars

\* a SignData has changed one device while a second device is stored and
\* is as it was created
C28_Witness ==
  \E i, j \in IDs :
    /\ i # j /\ Exists(i) /\ Exists(j)
    /\ Stored(i).SignatureCounter = 1
    /\ Stored(i).LastSignature # Base64(i)
    /\ Stored(j).SignatureCounter = 0
    /\ Stored(j).LastSignature = Base64(j)

\* the CreateDevice calls so far that got past the algorithm check had
\* pairwise distinct ids (each of them has built one record)
DistinctCreates ==
  \A a, b \in 1..Len(heap) : a # b => heap[a].ID # heap[b].ID

\* the CreateDevice call that built the record is in progress
Creating(a) == \E t \in Threads : loc[t].op = "create" /\ loc[t].dev = a

\* C29: CreateDevice calls with pairwise distinct ids, in any interleaving,
\* all succeed and each of their devices is stored once they have
\* returned; a GetAllDevices after them returns as many devices as there
\* were calls.
C29_ConcurrentCreatesAllStored ==
  DistinctCreates =>
    /\ \A a \in 1..Len(heap) : ~Creating(a) => devices[heap[a].ID] = a
    /\ (ret.op = "create" /\ ret.alg \in {AlgRSA, AlgECC}) =>
         ret.err = "" /\ ret.dev # Nil
    /\ (/\ ret.op = "list" /\ ret.err = ""
        /\ \A a \in 1..Len(heap) : ~Creating(a)) =>
         Cardinality(ret.list) = Len(heap)

\* two CreateDevice calls with distinct ids have overlapped: the one that
\* was issued first has returned last, and both devices are stored
C29_Witness ==
  /\ DistinctCreates /\ Len(heap) = 2
  /\ ret.op = "create" /\ ret.err = "" /\ ret.dev = 1
  /\ devices[heap[1].ID] = 1 /\ devices[heap[2].ID] = 2

StorageCall(op) == calls' = calls + 1 /\ heap' = heap /\ ret'.op = op

\* C31: Update of the store never fails and is an upsert: it returns no
\* error, the id of its device then maps to that device, whether the id was
\* stored before or not, the other ids keep their devices, and one stored
\* record carries the id.
C31_UpdateIsUpsert ==
  [][StorageCall("update") =>
       /\ ret'.err = ""
       /\ heap[ret'.dev].ID = ret'.id
       /\ devices'[ret'.id] = ret'.dev
       /\ \A i \in StorageIDs \ {ret'.id} : devices'[i] = devices[i]
       /\ Cardinality({i \in StorageIDs :
                         devices'[i] # Nil /\ heap[devices'[i]].ID = ret'.id})
            = 1]_vars

\* the first call of the store was an Update: its device was not stored,
\* and is now
C31_Witness ==
  /\ ret.op = "update" /\ ret.err = ""
  /\ calls = 2 /\ Len(heap) = 1
  /\ devices[ret.id] = 1

\* C32: a successful Save or an Update makes its device the device of its
\* id, nothing else changes what an id maps to, and GetDevice of an id
\* returns that device, with its id, label and counter, or an error and no
\* device when the id (the empty id too) has no device.
C32_StorageRoundTrip ==
  [][/\ (StorageCall("save") /\ ret'.err = "") =>
          devices'[ret'.id] = ret'.dev
     /\ StorageCall("update") => devices'[ret'.id] = ret'.dev
     /\ \A i \in StorageIDs :
          devices'[i] # devices[i] =>
            /\ StorageCall("save") \/ StorageCall("update")
            /\ ret'.id = i /\ ret'.err = ""
     /\ StorageCall("get") =>
          IF devices[ret'.id] = Nil
          THEN ret'.err # "" /\ ret'.dev = Nil /\ ret'.seen = <<>>
          ELSE /\ ret'.err = ""
               /\ ret'.dev = devices[ret'.id]
               /\ ret'.seen[ret'.dev].ID = ret'.id
               /\ ret'.seen[ret'.dev].Label = heap[ret'.dev].Label
               /\ ret'.seen[ret'.dev].SignatureCounter
                    = heap[ret'.dev].SignatureCounter]_vars

\* GetDevice has returned the device that was written for the empty id,
\* while another id has never been written
C32_Witness ==
  /\ ret.op = "get" /\ ret.err = "" /\ ret.dev # Nil
  /\ ret.id = <<>> /\ devices[ret.id] = ret.dev
  /\ ret.seen[ret.dev].Label = "B"
  /\ \E i \in StorageIDs : devices[i] = Nil

\* C33: the device a successful CreateDevice returns, whatever id the
\* service accepted for it (the empty id too), has a lastSignature that is
\* not the empty string.
C33_GenesisNotEmpty ==
  (ret.op = "create" /\ ret.err = "" /\ ret.dev # Nil) =>
    ret.seen[ret.dev].LastSignature # <<>>

\* C38: a create or sign request whose method is not POST is answered 405,
\* and one whose method is POST and whose body does not decode is answered
\* 400; in both cases the service is not called (no record is built, the
\* thread enters neither CreateDevice nor SignData, no lock is taken) and
\* the store and its records stay as they are.
C38_RejectedRequestsTouchNothing ==
  [][\A t \in Threads :
       (/\ pc[t] \in {"h_create", "h_sign"}
        /\ pc'[t] # pc[t]
        /\ loc[t].method # MethodPost \/ ~loc[t].decodes) =>
         /\ pc'[t] = "idle"
         /\ ret'.op = (IF pc[t] = "h_create" THEN "create" ELSE "sign")
         /\ ret'.status = (IF loc[t].method # MethodPost
                           THEN StatusMethodNotAllowed
                           ELSE StatusBadRequest)
         /\ ret'.err = "" /\ ret'.dev = Nil /\ ret'.body = <<>>
         /\ ret'.Signature = <<>> /\ ret'.SignedData = <<>>
         /\ heap' = heap /\ devices' = devices
         /\ signed' = signed /\ failed' = failed
         /\ mu' = mu /\ rwWriter' = rwWriter /\ rwReaders' = rwReaders]_vars

\* a sign request with a body that does not decode was answered 400 for a
\* device that is stored and has signed once
C38_Witness ==
  /\ ret.op = "sign" /\ ret.status = StatusBadRequest
  /\ Exists(<<100>>)
  /\ Len(signed[<<100>>]) = 1
  /\ Stored(<<100>>).SignatureCounter = 1

\* C34: of the CreateDevice calls for one id, overlapping or not, the one
\* whose Save finds the id absent succeeds and its device is the stored
\* one; every other one fails with the already-exists error and leaves
\* the stored device in place; so once a call for the id has returned, the
\* id has a stored device, and never another one afterwards.
C34_OneCreatePerIdSucceeds ==
  [][/\ \A t \in Threads :
          (pc[t] = "cd_save" /\ pc'[t] = "idle") =>
            IF devices[loc[t].id] = Nil
            THEN /\ ret'.err = "" /\ ret'.status = StatusCreated
                 /\ ret'.dev = loc[t].dev
                 /\ devices'[loc[t].id] = ret'.dev
            ELSE /\ ret'.err = ErrAlreadyExists
                 /\ ret'.dev = Nil
                 /\ devices'[loc[t].id] = devices[loc[t].id]
                 /\ devices'[loc[t].id] # loc[t].dev
     /\ \A id \in IDs : devices[id] # Nil => devices'[id] = devices[id]
     /\ \A a \in 1..Len(heap') :
          (\A t \in Threads : ~(loc'[t].op = "create" /\ loc'[t].dev = a)) =>
            /\ devices'[heap'[a].ID] # Nil
            /\ heap'[devices'[heap'[a].ID]].ID = heap'[a].ID]_vars

\* two CreateDevice calls for one id have overlapped: the call that built
\* its record first came second at the store and was rejected
C34_Witness ==
  /\ ret.op = "create" /\ ret.err = ErrAlreadyExists
  /\ Len(heap) = 2 /\ heap[1].ID = heap[2].ID
  /\ devices[ret.id] = 2
  /\ ~Creating(1)

\* how far a call has got: the positions of the four operations of the
\* service, in the order of the code
Position(p) ==
  CASE p = "idle" -> 0
    [] p = "cd_lock" -> 1
    [] p = "cd_wait" -> 2
    [] p = "cd_save" -> 3
    [] p = "sd_mu" -> 1
    [] p = "sd_rlock" -> 2
    [] p = "sd_get" -> 3
    [] p = "sd_sign" -> 4
    [] p = "sd_inc" -> 5
    [] p = "sd_last" -> 6
    [] p = "sd_wlock" -> 7
    [] p = "sd_wait" -> 8
    [] p = "sd_update" -> 9
    [] p \in {"gd_rlock", "ga_rlock"} -> 1
    [] p \in {"gd_get", "ga_get"} -> 2

\* C35: nothing is retried: a call only moves forward until it returns,
\* so it is at the signer, at Update and at Save once at most; a SignData
\* goes on from the signer only with a signature, reaches Update only from
\* there, and a failure of the signer or of Update is returned at once.
C35_NoRetry ==
  [][/\ \A t \in Threads :
          pc'[t] # pc[t] =>
            pc'[t] = "idle" \/ Position(pc'[t]) > Position(pc[t])
     /\ \A t \in Threads :
          /\ pc'[t] = "sd_inc" =>
               pc[t] \in {"sd_sign", "sd_inc"} /\ loc'[t].sig # <<>>
          /\ pc'[t] \in {"sd_wlock", "sd_wait", "sd_update"} =>
               /\ pc[t] \in {"sd_last", "sd_wlock", "sd_wait", "sd_update"}
               /\ loc[t].sig # <<>>
          /\ pc'[t] \in {"cd_wait", "cd_save"} =>
               pc[t] \in {"cd_lock", "cd_wait", "cd_save"}
     /\ failed' # failed =>
          \E t \in Threads :
            /\ pc[t] \in {"sd_sign", "sd_wlock"} /\ pc'[t] = "idle"
            /\ ret'.op = "sign" /\ ret'.err \in {ErrSign, ErrUpdate}
            /\ failed' = [failed EXCEPT ![loc[t].id] = @ + 1]]_vars

\* a SignData has signed once and has failed at Update: the counter was
\* incremented once, and no call is in progress
C35_Witness ==
  /\ ret.op = "sign" /\ ret.err = ErrUpdate
  /\ failed[ret.id] = 1 /\ Len(signed[ret.id]) = 0
  /\ Stored(ret.id).SignatureCounter = 1
  /\ \A t \in Threads : pc[t] = "idle"

\* C36: the signature of every successful SignData is the base64 encoding
\* of bytes that the signer of the device has produced for exactly the
\* signedData string returned with it.
C36_ReturnedPayloadIsSigned ==
  /\ \A id \in IDs : \A k \in 1..Len(signed[id]) :
       LET sig == Base64Decode(signed[id][k].Signature)
       IN /\ Exists(id)
          /\ Base64(sig) = signed[id][k].Signature
          /\ SignedBy(Stored(id), sig)
          /\ SignedPayload(Stored(id), sig) = signed[id][k].SignedData
  /\ (ret.op = "sign" /\ ret.err = "") =>
       /\ Len(signed[ret.id]) >= 1
       /\ ret.Signature = signed[ret.id][Len(signed[ret.id])].Signature
       /\ ret.SignedData = signed[ret.id][Len(signed[ret.id])].SignedData
       /\ SignedPayload(heap[ret.dev], Base64Decode(ret.Signature))
            = ret.SignedData

\* an ECC device has signed twice
C36_Witness ==
  \E id \in IDs :
    /\ Exists(id) /\ Stored(id).Algorithm = AlgECC
    /\ Len(signed[id]) = 2
    /\ ret.op = "sign" /\ ret.err = "" /\ ret.id = id

\* C37: SignData creates no device: no step of a SignData builds a record
\* or gives a device to an id that has none, and a SignData that succeeds
\* has worked on the stored device of its id, which a CreateDevice that
\* has returned had stored.
C37_SignNeedsCreatedDevice ==
  [][/\ \A t \in Threads :
          (loc[t].op = "sign" /\ pc'[t] # pc[t]) =>
            /\ Len(heap') = Len(heap)
            /\ \A id \in IDs : devices[id] = Nil => devices'[id] = Nil
     /\ \A t \in Threads :
          (pc[t] = "sd_update" /\ pc'[t] = "idle" /\ ret'.err = "") =>
            /\ loc[t].dev # Nil
            /\ devices[loc[t].id] = loc[t].dev
            /\ heap[loc[t].dev].ID = loc[t].id
            /\ ~Creating(loc[t].dev)
     /\ \A id \in IDs : Len(signed'[id]) > 0 => devices'[id] # Nil]_vars

\* a SignData has succeeded on a created device while a SignData on an id
\* that has no device is in progress
C37_Witness ==
  /\ ret.op = "sign" /\ ret.err = ""
  /\ Len(signed[ret.id]) = 1
  /\ \E t \in Threads :
       /\ loc[t].op = "sign" /\ loc[t].id # ret.id
       /\ ~Exists(loc[t].id)

====
